---- MODULE Spec2Model ----
(***************************************************************************)
(* Model of src/hobbydb_scraper.py: the resumable scraping loop of main(), *)
(* the progress file, the CSV store and the row normaliser process_item(). *)
(*                                                                         *)
(* Scaling: BATCH_SIZE and STOP_AFTER_MATCHES are 50 in the source; here   *)
(* they are 3 and 2 so that pages, page boundaries and the stop threshold  *)
(* all occur on catalogs of a few items.                                   *)
(*                                                                         *)
(* Environment modelled: a page fetch may fail (None) any number of times, *)
(* a subvariant fetch may fail ([]), append_to_csv may raise after writing *)
(* a strict prefix of its rows, KeyboardInterrupt may arrive at any point  *)
(* of the try block between two I/O operations.  save_progress itself is   *)
(* taken to be atomic and to succeed.  The remote source keeps to its      *)
(* contract: a fixed sequence of items, offset-addressable, stable order.  *)
(***************************************************************************)
EXTENDS Integers, Sequences, FiniteSets, TLC

\* ------------------------------------------------------------------ bounds
MaxCatalog == 4          \* longest remote catalog drawn in Init
MaxRuns == 2             \* invocations of main() in one behaviour

\* ------------------------------------------------------- program constants
BATCH_SIZE == 3          \* 50 in the source, scaled
STOP_AFTER_MATCHES == 2  \* 50 in the source, scaled

\* --------------------------------------------------------- python values
\* A JSON value as the API delivers it: an integer, a string, null, or a
\* key that is missing from the dict.
V_Int(n) == [t |-> "int", n |-> n, s |-> ""]
V_Str(s) == [t |-> "str", n |-> 0, s |-> s]
V_None == [t |-> "none", n |-> 0, s |-> ""]
V_Absent == [t |-> "absent", n |-> 0, s |-> ""]

\* str(v)
Str(v) ==
  CASE v.t = "int" -> <<"0", "1", "2", "3", "4", "5", "6", "7", "8", "9">>[v.n + 1]
    [] v.t = "str" -> v.s
    [] OTHER -> "None"

\* bool(v)
Truthy(v) ==
  CASE v.t = "int" -> v.n # 0
    [] v.t = "str" -> v.s # ""
    [] OTHER -> FALSE

\* Optional[str]
NoneOpt == [some |-> FALSE, s |-> ""]
Some(s) == [some |-> TRUE, s |-> s]

\* A raw catalog item: the keys the dedup and master/subvariant logic read.
\* ci_master_id is item['catalog_item']['master_id'] (absent when there is
\* no such dict or key).
Raw(id, hdbid, master_id, ci_master_id) ==
  [id |-> id, hdbid |-> hdbid, master_id |-> master_id, ci_master_id |-> ci_master_id]

\* str(item.get('id', item.get('hdbid', '')))
HdbidOf(item) ==
  IF item.id.t # "absent" THEN Str(item.id)
  ELSE IF item.hdbid.t # "absent" THEN Str(item.hdbid)
  ELSE ""

extract_master_variant_info(item) ==
  IF item.master_id.t # "absent" /\ Truthy(item.master_id)
    THEN Some(Str(item.master_id))
  ELSE IF item.ci_master_id.t # "absent"
    THEN Some(Str(item.ci_master_id))
  ELSE NoneOpt

\* process_item with line 342 reading "master_hdbid or hdbid" for every row.
process_item_owner_always(item, master_hdbid) ==
  LET hdbid == HdbidOf(item)
      master_id == extract_master_variant_info(item)
      is_master == IF ~master_hdbid.some THEN TRUE
                   ELSE (~master_id.some \/ master_id.s = hdbid)
  IN [hdbid |-> hdbid,
      is_master_variant |-> IF is_master THEN "1" ELSE "0",
      master_variant_hdbid |->
        IF master_hdbid.some /\ master_hdbid.s # "" THEN master_hdbid.s ELSE hdbid,
      variant_type |-> IF is_master THEN "master" ELSE "subvariant"]

\* process_item, lines 302-351: the identifier and the variant fields of the row.
process_item(item, master_hdbid) ==
  LET hdbid == HdbidOf(item)
      master_id == extract_master_variant_info(item)
      is_master == IF ~master_hdbid.some THEN TRUE
                   ELSE (~master_id.some \/ master_id.s = hdbid)
  IN [hdbid |-> hdbid,
      is_master_variant |-> IF is_master THEN "1" ELSE "0",
      master_variant_hdbid |->
        IF ~is_master
          THEN (IF master_hdbid.some /\ master_hdbid.s # "" THEN master_hdbid.s ELSE hdbid)
          ELSE "",
      variant_type |-> IF is_master THEN "master" ELSE "subvariant"]

\* ------------------------------------------------------------ the source
\* Page items the remote catalog is built from.
P1 == Raw(V_Int(1), V_Absent, V_Absent, V_Absent)
P2 == Raw(V_Absent, V_Str("2"), V_Absent, V_Absent)
PE == Raw(V_Absent, V_Absent, V_Absent, V_Absent)
PagePool == {P1, P2, PE}

\* What /catalog_items/<hdbid>/subvariants holds for each identifier.
RemoteSubvariants(hdbid) ==
  CASE hdbid = "1" -> << Raw(V_Int(3), V_Absent, V_Int(1), V_Absent),
                         Raw(V_Absent, V_Absent, V_Int(1), V_Absent),
                         Raw(V_Int(2), V_Absent, V_Absent, V_Absent) >>
    [] hdbid = "2" -> << Raw(V_Int(3), V_Absent, V_Int(3), V_Absent),
                         Raw(V_Int(4), V_Absent, V_Int(0), V_None) >>
    [] OTHER -> << >>

SeqsUpTo(S, n) == UNION { [1..k -> S] : k \in 0..n }

Min(a, b) == IF a < b THEN a ELSE b

IsPrefix(s, t) == Len(s) <= Len(t) /\ SubSeq(t, 1, Len(s)) = s

\* ------------------------------------------------------------- the state
VARIABLES
  catalog,              \* the remote catalog, newest first (fixed)
  store,                \* rows of CSV_FILE, in file order
  saved,                \* contents of PROGRESS_FILE
  pc,                   \* where main() is
  progress,             \* main: progress dict
  offset,               \* main: offset
  existing_hdbids,      \* main: existing_hdbids
  consecutive_matches,  \* main: consecutive_matches
  total_new,            \* main: total_new
  total_updated,        \* main: total_updated
  items,                \* main: items of the page being processed
  idx,                  \* main: position of the for loop in items
  new_rows,             \* main: new_rows
  batch_matches,        \* main: batch_matches
  runs,                 \* number of invocations so far
  endKind,              \* how the current/last run left the loop
  prevEnd,              \* how the run before the current one left the loop
  storeAtStart,         \* store as the current run found it
  startOffset,          \* offset the current run resumed from
  pagesDone,            \* raw items of the pages completed in this run
  subFetches,           \* per item of the page: subvariant requests issued
  lastFetch,            \* outcome and offset of the last page request
  lastSub,              \* outcome of the last subvariant request of the page
  afterDedup,           \* seen set and counter right after the dedup test of the last item
  nItem, nMaster, nRow, \* normaliser harness: inputs and produced row
  tItem,                \* text harness: name, series, prod_status, description
  tOut                  \* text harness: extracted exclusivity and stickers

mainvars == <<catalog, store, saved, pc, progress, offset, existing_hdbids,
              consecutive_matches, total_new, total_updated, items, idx,
              new_rows, batch_matches, runs, endKind, prevEnd, storeAtStart,
              startOffset, pagesDone, subFetches, lastFetch, lastSub,
              afterDedup>>
tvars == <<tItem, tOut>>
nvars == <<nItem, nMaster, nRow, tvars>>
vars == <<mainvars, nvars>>

NoFile == [exists |-> FALSE, last_index |-> 0, total_scraped |-> 0]
\* A text field is the sequence of its words, split at single spaces: the
\* empty string is the one empty word.
NoWords == <<"">>
Text(name, series, prod_status, description) ==
  [name |-> name, series |-> series, prod_status |-> prod_status,
   description |-> description]
NoOut == [done |-> FALSE, exclusivity |-> [some |-> FALSE, s |-> ""], stickers |-> << >>]
NoText == tItem = Text(NoWords, NoWords, NoWords, NoWords) /\ tOut = NoOut

NoRow == [hdbid |-> "", is_master_variant |-> "", master_variant_hdbid |-> "",
          variant_type |-> ""]
NoFetch == [kind |-> "none", offset |-> 0]
NoDedup == [seen |-> {}, consecutive_matches |-> 0]

load_progress ==
  IF saved.exists
    THEN [last_index |-> saved.last_index, total_scraped |-> saved.total_scraped]
    ELSE [last_index |-> 0, total_scraped |-> 0]

get_existing_hdbids ==
  { store[i].hdbid : i \in { j \in 1..Len(store) : store[j].hdbid # "" } }

\* save_progress that leaves the file as it is.
save_progress_lost(p) == saved

\* save_progress, lines 57-61: the file after the dump.
save_progress(p) ==
  [exists |-> TRUE, last_index |-> p.last_index, total_scraped |-> p.total_scraped]

\* The page the source returns for (offset, limit).
fetch_catalog_items(off, limit) ==
  SubSeq(catalog, off + 1, Min(off + limit, Len(catalog)))

\* Before the first run: no CSV file, no progress file, no process.
FreshInstall ==
  /\ store = << >>
  /\ saved = NoFile
  /\ pc = "idle"
  /\ progress = [last_index |-> 0, total_scraped |-> 0]
  /\ offset = 0
  /\ existing_hdbids = {}
  /\ consecutive_matches = 0
  /\ total_new = 0
  /\ total_updated = 0
  /\ items = << >>
  /\ idx = 1
  /\ new_rows = << >>
  /\ batch_matches = 0
  /\ runs = 0
  /\ endKind = "none"
  /\ prevEnd = "none"
  /\ storeAtStart = << >>
  /\ startOffset = 0
  /\ pagesDone = 0
  /\ subFetches = << >>
  /\ lastFetch = NoFetch
  /\ lastSub = "none"
  /\ afterDedup = NoDedup

Init ==
  /\ catalog \in SeqsUpTo(PagePool, MaxCatalog)
  /\ FreshInstall
  /\ nItem = PE
  /\ nMaster = NoneOpt
  /\ nRow = NoRow
  /\ NoText

\* main, lines 400-417: load the cursor, seed the dedup set, start the loop.
StartRun ==
  /\ pc = "idle"
  /\ runs < MaxRuns
  /\ progress' = load_progress
  /\ existing_hdbids' = get_existing_hdbids
  /\ offset' = load_progress.last_index
  /\ consecutive_matches' = 0
  /\ total_new' = 0
  /\ total_updated' = 0
  /\ pc' = "fetch"
  /\ runs' = runs + 1
  /\ prevEnd' = endKind
  /\ endKind' = "none"
  /\ storeAtStart' = store
  /\ startOffset' = load_progress.last_index
  /\ pagesDone' = 0
  /\ lastFetch' = NoFetch
  /\ UNCHANGED <<catalog, store, saved, items, idx, new_rows, batch_matches,
                 subFetches, lastSub, afterDedup, nvars>>

\* fetch_subvariants that asks a second time when the first request fails.
fetch_subvariants_retry(hdbid, ok) ==
  [data |-> RemoteSubvariants(hdbid),
   requests |-> IF ok THEN 1 ELSE 2]

\* fetch_subvariants, lines 126-145: one request; any failure gives [].
fetch_subvariants(hdbid, ok) ==
  [data |-> IF ok THEN RemoteSubvariants(hdbid) ELSE << >>,
   requests |-> 1]

\* The item loop without its break.
InnerStop_never(c) == FALSE

\* main, line 457: the limit test inside the item loop.
InnerStop(c) == c >= STOP_AFTER_MATCHES

\* main, line 507: the limit test after the page.
OuterStop(c) == c >= STOP_AFTER_MATCHES

\* The cursor advanced only by the items that carry an identifier.
AdvancedOffset_identified(off, its, rows) ==
  off + Cardinality({ i \in 1..Len(its) : HdbidOf(its[i]) # "" })

\* The cursor advanced by the rows written instead of the raw items read.
AdvancedOffset_rows(off, its, rows) == off + Len(rows)

\* main, line 497: the new offset after a page.
AdvancedOffset(off, its, rows) == off + Len(its)

\* append_to_csv opening the file with mode 'w'.
append_to_csv_overwrite(file, rows) == rows

\* append_to_csv, lines 364-377: the file after appending rows.
append_to_csv(file, rows) == file \o rows

\* The subvariant loop without line 482: appended identifiers are not marked.
RECURSIVE SubvariantLoop_noMark(_, _, _, _, _, _)
SubvariantLoop_noMark(subs, seen, rows, tn, cm, hdbid) ==
  IF subs = << >>
    THEN [seen |-> seen, rows |-> rows, total_new |-> tn, consecutive_matches |-> cm]
  ELSE LET subvariant == Head(subs)
           sub_hdbid == HdbidOf(subvariant)
       IN IF sub_hdbid # "" /\ sub_hdbid \notin seen
            THEN SubvariantLoop_noMark(Tail(subs), seen,
                                Append(rows, process_item(subvariant, Some(hdbid))),
                                tn + 1, cm, hdbid)
            ELSE SubvariantLoop_noMark(Tail(subs), seen, rows, tn, cm, hdbid)

\* The subvariant loop resetting the counter on a new subvariant, as line 463
\* does for a new page item.
RECURSIVE SubvariantLoop_resets(_, _, _, _, _, _)
SubvariantLoop_resets(subs, seen, rows, tn, cm, hdbid) ==
  IF subs = << >>
    THEN [seen |-> seen, rows |-> rows, total_new |-> tn, consecutive_matches |-> cm]
  ELSE LET subvariant == Head(subs)
           sub_hdbid == HdbidOf(subvariant)
       IN IF sub_hdbid # "" /\ sub_hdbid \notin seen
            THEN SubvariantLoop_resets(Tail(subs), seen \cup {sub_hdbid},
                                Append(rows, process_item(subvariant, Some(hdbid))),
                                tn + 1, 0, hdbid)
            ELSE SubvariantLoop_resets(Tail(subs), seen, rows, tn, cm, hdbid)

\* main, lines 475-484: the loop over the subvariants of one page item; cm is
\* consecutive_matches, which the loop never assigns.
RECURSIVE SubvariantLoop(_, _, _, _, _, _)
SubvariantLoop(subs, seen, rows, tn, cm, hdbid) ==
  IF subs = << >>
    THEN [seen |-> seen, rows |-> rows, total_new |-> tn, consecutive_matches |-> cm]
  ELSE LET subvariant == Head(subs)
           sub_hdbid == HdbidOf(subvariant)
       IN IF sub_hdbid # "" /\ sub_hdbid \notin seen
            THEN SubvariantLoop(Tail(subs), seen \cup {sub_hdbid},
                                Append(rows, process_item(subvariant, Some(hdbid))),
                                tn + 1, cm, hdbid)
            ELSE SubvariantLoop(Tail(subs), seen, rows, tn, cm, hdbid)

\* The dedup test forgetting to reset the counter on a new identifier.
DedupCheck_noReset(seen, c, hdbid) ==
  IF hdbid \in seen
    THEN [known |-> TRUE, seen |-> seen, consecutive_matches |-> c + 1]
    ELSE [known |-> FALSE, seen |-> seen \cup {hdbid}, consecutive_matches |-> c]

\* main, lines 450-465: the dedup test of one page item.
DedupCheck(seen, c, hdbid) ==
  IF hdbid \in seen
    THEN [known |-> TRUE, seen |-> seen, consecutive_matches |-> c + 1]
    ELSE [known |-> FALSE, seen |-> seen \cup {hdbid}, consecutive_matches |-> 0]

\* A failed page request that moves on to the next page.
FetchFail_skip ==
  /\ pc = "fetch"
  /\ lastFetch' = [kind |-> "failed", offset |-> offset]
  /\ offset' = offset + BATCH_SIZE
  /\ UNCHANGED <<catalog, store, saved, pc, progress, existing_hdbids,
                 consecutive_matches, total_new, total_updated, items, idx,
                 new_rows, batch_matches, runs, endKind, prevEnd, storeAtStart,
                 startOffset, pagesDone, subFetches, lastSub, afterDedup, nvars>>

\* main, lines 422-428: the page request fails (None); sleep and retry.
FetchFail ==
  /\ pc = "fetch"
  /\ lastFetch' = [kind |-> "failed", offset |-> offset]
  /\ UNCHANGED <<catalog, store, saved, pc, progress, offset, existing_hdbids,
                 consecutive_matches, total_new, total_updated, items, idx,
                 new_rows, batch_matches, runs, endKind, prevEnd, storeAtStart,
                 startOffset, pagesDone, subFetches, lastSub, afterDedup, nvars>>

\* An empty page answered with another request instead of ending the loop.
FetchPage_emptyRetries ==
  /\ pc = "fetch"
  /\ LET page == fetch_catalog_items(offset, BATCH_SIZE)
     IN /\ items' = page
        /\ IF page = << >>
             THEN /\ pc' = "fetch"
                  /\ endKind' = endKind
                  /\ lastFetch' = [kind |-> "empty", offset |-> offset]
                  /\ UNCHANGED <<new_rows, batch_matches, idx, subFetches, lastSub, afterDedup>>
             ELSE /\ pc' = "items"
                  /\ endKind' = endKind
                  /\ lastFetch' = [kind |-> "page", offset |-> offset]
                  /\ new_rows' = << >>
                  /\ batch_matches' = 0
                  /\ idx' = 1
                  /\ subFetches' = [i \in 1..Len(page) |-> 0]
                  /\ lastSub' = "none"
                  /\ afterDedup' = NoDedup
  /\ UNCHANGED <<catalog, store, saved, progress, offset, existing_hdbids,
                 consecutive_matches, total_new, total_updated, runs, prevEnd,
                 storeAtStart, startOffset, pagesDone, nvars>>

\* main, lines 422-440: the page request succeeds.
FetchPage ==
  /\ pc = "fetch"
  /\ LET page == fetch_catalog_items(offset, BATCH_SIZE)
     IN /\ items' = page
        /\ IF page = << >>
             THEN /\ pc' = "finally"
                  /\ endKind' = "empty"
                  /\ lastFetch' = [kind |-> "empty", offset |-> offset]
                  /\ UNCHANGED <<new_rows, batch_matches, idx, subFetches, lastSub, afterDedup>>
             ELSE /\ pc' = "items"
                  /\ endKind' = endKind
                  /\ lastFetch' = [kind |-> "page", offset |-> offset]
                  /\ new_rows' = << >>
                  /\ batch_matches' = 0
                  /\ idx' = 1
                  /\ subFetches' = [i \in 1..Len(page) |-> 0]
                  /\ lastSub' = "none"
                  /\ afterDedup' = NoDedup
  /\ UNCHANGED <<catalog, store, saved, progress, offset, existing_hdbids,
                 consecutive_matches, total_new, total_updated, runs, prevEnd,
                 storeAtStart, startOffset, pagesDone, nvars>>

\* main, lines 442-488: the body of the item loop for items[idx]; ok is the
\* outcome of this item's subvariant request.
ProcessItem(ok) ==
  /\ pc = "items"
  /\ idx <= Len(items)
  /\ LET item == items[idx]
         hdbid == HdbidOf(item)
         d == DedupCheck(existing_hdbids, consecutive_matches, hdbid)
         after == IF idx = Len(items) THEN "append" ELSE "items"
     IN IF hdbid = ""
          THEN \* line 446: continue
               /\ idx' = idx + 1
               /\ pc' = after
               /\ UNCHANGED <<existing_hdbids, consecutive_matches, total_new,
                              new_rows, batch_matches, subFetches, lastSub,
                              afterDedup>>
        ELSE IF d.known /\ InnerStop(d.consecutive_matches)
          THEN \* lines 451-461: break
               /\ batch_matches' = batch_matches + 1
               /\ consecutive_matches' = d.consecutive_matches
               /\ afterDedup' = [seen |-> d.seen,
                                 consecutive_matches |-> d.consecutive_matches]
               /\ pc' = "append"
               /\ UNCHANGED <<idx, existing_hdbids, total_new, new_rows, subFetches,
                              lastSub>>
        ELSE LET tn1 == IF d.known THEN total_new ELSE total_new + 1
                 rows1 == Append(new_rows, process_item(item, NoneOpt))
                 f == fetch_subvariants(hdbid, ok)
                 r == SubvariantLoop(f.data, d.seen, rows1, tn1,
                                     d.consecutive_matches, hdbid)
             IN /\ batch_matches' = IF d.known THEN batch_matches + 1 ELSE batch_matches
                /\ afterDedup' = [seen |-> d.seen,
                                  consecutive_matches |-> d.consecutive_matches]
                /\ consecutive_matches' = r.consecutive_matches
                /\ existing_hdbids' = r.seen
                /\ total_new' = r.total_new
                /\ new_rows' = r.rows
                /\ subFetches' = [subFetches EXCEPT ![idx] = @ + f.requests]
                /\ lastSub' = IF ok THEN "ok" ELSE "failed"
                /\ idx' = idx + 1
                /\ pc' = after
  /\ UNCHANGED <<catalog, store, saved, progress, offset, total_updated, items,
                 runs, endKind, prevEnd, storeAtStart, startOffset, pagesDone,
                 lastFetch, nvars>>

\* main, lines 490-494: flush the page's rows in one batch.
AppendCsv ==
  /\ pc = "append"
  /\ IF new_rows # << >>
       THEN /\ store' = append_to_csv(store, new_rows)
            /\ total_updated' = total_updated + Len(new_rows)
       ELSE UNCHANGED <<store, total_updated>>
  /\ pc' = "update"
  /\ UNCHANGED <<catalog, saved, progress, offset, existing_hdbids,
                 consecutive_matches, total_new, items, idx, new_rows,
                 batch_matches, runs, endKind, prevEnd, storeAtStart,
                 startOffset, pagesDone, subFetches, lastFetch, lastSub, afterDedup, nvars>>

\* The append error swallowed: the loop goes on to the cursor update.
AppendFail_swallowed(k) ==
  /\ pc = "append"
  /\ new_rows # << >>
  /\ k < Len(new_rows)
  /\ store' = append_to_csv(store, SubSeq(new_rows, 1, k))
  /\ pc' = "update"
  /\ endKind' = "error"
  /\ UNCHANGED <<catalog, saved, progress, offset, existing_hdbids,
                 consecutive_matches, total_new, total_updated, items, idx,
                 new_rows, batch_matches, runs, prevEnd, storeAtStart,
                 startOffset, pagesDone, subFetches, lastFetch, lastSub,
                 afterDedup, nvars>>

\* append_to_csv raises after k < len(rows) rows reached the file
\* (lines 370-377), caught at line 516.
AppendFail(k) ==
  /\ pc = "append"
  /\ new_rows # << >>
  /\ k < Len(new_rows)
  /\ store' = append_to_csv(store, SubSeq(new_rows, 1, k))
  /\ pc' = "finally"
  /\ endKind' = "error"
  /\ UNCHANGED <<catalog, saved, progress, offset, existing_hdbids,
                 consecutive_matches, total_new, total_updated, items, idx,
                 new_rows, batch_matches, runs, prevEnd, storeAtStart,
                 startOffset, pagesDone, subFetches, lastFetch, lastSub, afterDedup, nvars>>

\* main, lines 496-500: advance the cursor in memory.
UpdateProgress ==
  /\ pc = "update"
  /\ offset' = AdvancedOffset(offset, items, new_rows)
  /\ progress' = [last_index |-> AdvancedOffset(offset, items, new_rows),
                  total_scraped |-> progress.total_scraped + Len(items)]
  /\ pagesDone' = pagesDone + Len(items)
  /\ pc' = "save"
  /\ UNCHANGED <<catalog, store, saved, existing_hdbids, consecutive_matches,
                 total_new, total_updated, items, idx, new_rows, batch_matches,
                 runs, endKind, prevEnd, storeAtStart, startOffset, subFetches,
                 lastFetch, lastSub, afterDedup, nvars>>

\* main, lines 501-511: persist the cursor, then test the stop condition.
SaveProgress ==
  /\ pc = "save"
  /\ saved' = save_progress(progress)
  /\ IF OuterStop(consecutive_matches)
       THEN pc' = "finally" /\ endKind' = "threshold"
       ELSE pc' = "fetch" /\ endKind' = endKind
  /\ UNCHANGED <<catalog, store, progress, offset, existing_hdbids,
                 consecutive_matches, total_new, total_updated, items, idx,
                 new_rows, batch_matches, runs, prevEnd, storeAtStart,
                 startOffset, pagesDone, subFetches, lastFetch, lastSub, afterDedup, nvars>>

\* main, line 513: KeyboardInterrupt anywhere inside the try block.
Interrupt ==
  /\ pc \in {"fetch", "items", "append", "update", "save"}
  /\ pc' = "finally"
  /\ endKind' = "interrupt"
  /\ UNCHANGED <<catalog, store, saved, progress, offset, existing_hdbids,
                 consecutive_matches, total_new, total_updated, items, idx,
                 new_rows, batch_matches, runs, prevEnd, storeAtStart,
                 startOffset, pagesDone, subFetches, lastFetch, lastSub, afterDedup, nvars>>

\* The cursor flushed only when the loop ended by itself.
FinalFlush_onlyNormal ==
  /\ pc = "finally"
  /\ saved' = IF endKind \in {"interrupt", "error"} THEN saved ELSE save_progress(progress)
  /\ pc' = "idle"
  /\ existing_hdbids' = {}
  /\ consecutive_matches' = 0
  /\ total_new' = 0
  /\ total_updated' = 0
  /\ items' = << >>
  /\ idx' = 1
  /\ new_rows' = << >>
  /\ batch_matches' = 0
  /\ subFetches' = << >>
  /\ lastSub' = "none"
  /\ afterDedup' = NoDedup
  /\ UNCHANGED <<catalog, store, progress, offset, runs, endKind, prevEnd,
                 storeAtStart, startOffset, pagesDone, lastFetch, nvars>>

\* main, lines 521-531: the finally block, then the process exits and its
\* page-local state is gone.
FinalFlush ==
  /\ pc = "finally"
  /\ saved' = save_progress(progress)
  /\ pc' = "idle"
  /\ existing_hdbids' = {}
  /\ consecutive_matches' = 0
  /\ total_new' = 0
  /\ total_updated' = 0
  /\ items' = << >>
  /\ idx' = 1
  /\ new_rows' = << >>
  /\ batch_matches' = 0
  /\ subFetches' = << >>
  /\ lastSub' = "none"
  /\ afterDedup' = NoDedup
  /\ UNCHANGED <<catalog, store, progress, offset, runs, endKind, prevEnd,
                 storeAtStart, startOffset, pagesDone, lastFetch, nvars>>

Next ==
  \/ StartRun
  \/ FetchFail
  \/ FetchPage
  \/ \E ok \in BOOLEAN : ProcessItem(ok)
  \/ AppendCsv
  \/ \E k \in 0..(Len(new_rows) - 1) : AppendFail(k)
  \/ UpdateProgress
  \/ SaveProgress
  \/ Interrupt
  \/ FinalFlush

Spec == Init /\ [][Next]_vars

\* A run left alone: no KeyboardInterrupt and no persistence error.  The
\* loop is sequential code, so every step that is enabled is eventually taken;
\* a page request may fail any number of times but eventually succeeds.
LiveNext ==
  \/ StartRun
  \/ FetchFail
  \/ FetchPage
  \/ \E ok \in BOOLEAN : ProcessItem(ok)
  \/ AppendCsv
  \/ UpdateProgress
  \/ SaveProgress
  \/ FinalFlush

LiveSpec ==
  /\ Init
  /\ [][LiveNext]_vars
  /\ WF_vars(FetchPage)
  /\ WF_vars(\E ok \in BOOLEAN : ProcessItem(ok))
  /\ WF_vars(AppendCsv)
  /\ WF_vars(UpdateProgress)
  /\ WF_vars(SaveProgress)
  /\ WF_vars(FinalFlush)

\* ------------------------------------------------- normaliser in isolation
\* process_item applied to one record and one caller-supplied master
\* identifier.  main() passes either no master (page items, line 468) or the
\* non-empty identifier of the page item (subvariants, line 480).
NormIds == {V_Absent, V_None, V_Int(1), V_Int(2)}
NormHdbids == {V_Absent, V_Str(""), V_Str("2")}
NormMasterIds == {V_Absent, V_None, V_Int(0), V_Int(1), V_Str("2")}
NormCiMasterIds == {V_Absent, V_None, V_Int(2)}
NormMasters == {NoneOpt, Some("1"), Some("2")}

NormInit ==
  /\ catalog = << >>
  /\ FreshInstall
  /\ nItem \in { Raw(a, b, c, d) : a \in NormIds, b \in NormHdbids,
                                   c \in NormMasterIds, d \in NormCiMasterIds }
  /\ nMaster \in NormMasters
  /\ nRow = NoRow
  /\ NoText

Normalize ==
  /\ nRow = NoRow
  /\ nRow' = process_item(nItem, nMaster)
  /\ UNCHANGED <<mainvars, nItem, nMaster, tvars>>

NormNext == Normalize

NormSpec == NormInit /\ [][NormNext]_vars

\* ------------------------------------------------- the text heuristics
\* str.lower() of a word, for the words of the harness.
Lower(w) ==
  CASE w = "SDCC" -> "sdcc"
    [] w = "Shared" -> "shared"
    [] w = "Glow" -> "glow"
    [] w = "GITD" -> "gitd"
    [] w = "Golden" -> "golden"
    [] OTHER -> w

LowerWords(ws) == [i \in DOMAIN ws |-> Lower(ws[i])]

\* The strings a word starts with, ends with, contains, among the words of
\* the keywords ("" stands for the space next to the word).
Prefixes(w) == {"", w} \cup (IF w = "golden" THEN {"gold"} ELSE {})
Suffixes(w) == {"", w}
Infixes(w) == (Prefixes(w) \cup Suffixes(w)) \ {""}

\* keyword in search_text, both as word sequences: a one-word keyword lies
\* inside a word; a longer one ends a word, fills the words between and
\* starts a word.  ' ax ' is <<"", "ax", "">>.
In(keyword, search_text) ==
  LET n == Len(keyword)
  IN \E p \in 1..(Len(search_text) - n + 1) :
       IF n = 1
         THEN keyword[1] \in Infixes(search_text[p])
         ELSE /\ keyword[1] \in Suffixes(search_text[p])
              /\ keyword[n] \in Prefixes(search_text[p + n - 1])
              /\ \A i \in 2..(n - 1) : search_text[p + i - 1] = keyword[i]

\* extract_stickers, lines 170-182: the features dict, in insertion order.
features ==
  << [keyword |-> "chase", label |-> "Chase"],
     [keyword |-> "glow", label |-> "Glow in the Dark"],
     [keyword |-> "gitd", label |-> "Glow in the Dark"],
     [keyword |-> "metallic", label |-> "Metallic"],
     [keyword |-> "flocked", label |-> "Flocked"],
     [keyword |-> "chrome", label |-> "Chrome"],
     [keyword |-> "blacklight", label |-> "Blacklight"],
     [keyword |-> "diamond", label |-> "Diamond"],
     [keyword |-> "gold", label |-> "Gold"],
     [keyword |-> "translucent", label |-> "Translucent"],
     [keyword |-> "scented", label |-> "Scented"] >>

\* label in stickers
Holds(stickers, label) == \E i \in 1..Len(stickers) : stickers[i] = label

\* The loop body without the test "label not in stickers".
StickerStep_repeats(stickers, f, search_text) ==
  IF In(<<f.keyword>>, search_text)
    THEN IF f.keyword = "diamond" /\ In(<<"diamond", "select">>, search_text)
           THEN stickers
         ELSE IF f.keyword = "gold" /\ In(<<"golden">>, search_text)
           THEN stickers
         ELSE Append(stickers, f.label)
    ELSE stickers

\* extract_stickers, lines 187-193: one pass of the loop body.
StickerStep(stickers, f, search_text) ==
  IF In(<<f.keyword>>, search_text) /\ ~Holds(stickers, f.label)
    THEN IF f.keyword = "diamond" /\ In(<<"diamond", "select">>, search_text)
           THEN stickers
         ELSE IF f.keyword = "gold" /\ In(<<"golden">>, search_text)
           THEN stickers
         ELSE Append(stickers, f.label)
    ELSE stickers

RECURSIVE StickerLoop(_, _, _)
StickerLoop(i, stickers, search_text) ==
  IF i > Len(features) THEN stickers
  ELSE StickerLoop(i + 1, StickerStep(stickers, features[i], search_text), search_text)

\* f"{name} {prod_status} {description}", lowercased
StickerText(item) ==
  LowerWords(item.name) \o LowerWords(item.prod_status) \o LowerWords(item.description)

\* extract_stickers, lines 160-195
extract_stickers(item) == StickerLoop(1, << >>, StickerText(item))

\* f"{name} {series} {description}", lowercased
ExclusivityText(item) ==
  LowerWords(item.name) \o LowerWords(item.series) \o LowerWords(item.description)

\* The convention label with the test for 'shared' left out.
ConventionLabel_exclusive(shared, exclusive, search_text) == Some(exclusive)

\* extract_exclusivity: the body of each convention branch.
ConventionLabel(shared, exclusive, search_text) ==
  IF In(<<"shared">>, search_text) THEN Some(shared) ELSE Some(exclusive)

\* extract_exclusivity, lines 237-250: the retailers dict, in insertion order.
retailers ==
  << [pattern |-> <<"hot", "topic">>, label |-> "Hot Topic"],
     [pattern |-> <<"gamestop">>, label |-> "GameStop"],
     [pattern |-> <<"target">>, label |-> "Target"],
     [pattern |-> <<"walmart">>, label |-> "Walmart"],
     [pattern |-> <<"amazon">>, label |-> "Amazon"],
     [pattern |-> <<"barnes", "&", "noble">>, label |-> "Barnes & Noble"],
     [pattern |-> <<"barnes", "and", "noble">>, label |-> "Barnes & Noble"],
     [pattern |-> <<"boxlunch">>, label |-> "BoxLunch"],
     [pattern |-> <<"funko", "shop">>, label |-> "Funko Shop"],
     [pattern |-> <<"entertainment", "earth">>, label |-> "Entertainment Earth"],
     [pattern |-> <<"anime", "of", "the", "year">>, label |-> "Anime of the Year"],
     [pattern |-> <<"supreme">>, label |-> "Supreme"] >>

RECURSIVE RetailerLoop(_, _)
RetailerLoop(i, search_text) ==
  IF i > Len(retailers) THEN NoneOpt
  ELSE IF In(retailers[i].pattern, search_text) THEN Some(retailers[i].label)
  ELSE RetailerLoop(i + 1, search_text)

\* extract_exclusivity, lines 197-257
extract_exclusivity(item) ==
  LET search_text == ExclusivityText(item)
  IN IF In(<<"sdcc">>, search_text) \/ In(<<"san", "diego", "comic", "con">>, search_text)
       THEN ConventionLabel("SDCC Shared", "SDCC Exclusive", search_text)
     ELSE IF In(<<"nycc">>, search_text) \/ In(<<"new", "york", "comic", "con">>, search_text)
       THEN ConventionLabel("NYCC Shared", "NYCC Exclusive", search_text)
     ELSE IF In(<<"eccc">>, search_text) \/ In(<<"emerald", "city", "comic", "con">>, search_text)
       THEN ConventionLabel("ECCC Shared", "ECCC Exclusive", search_text)
     ELSE IF In(<<"anime", "expo">>, search_text) \/ In(<<"", "ax", "">>, search_text)
       THEN ConventionLabel("Anime Expo Shared", "Anime Expo Exclusive", search_text)
     ELSE IF In(<<"ccxp">>, search_text)
       THEN ConventionLabel("CCXP Shared", "CCXP Exclusive", search_text)
     ELSE IF In(<<"limited", "edition", "supreme">>, search_text)
       THEN Some("Limited Edition Supreme")
     ELSE IF In(<<"limited", "edition">>, search_text)
       THEN Some("Limited Edition")
     ELSE RetailerLoop(1, search_text)

\* The field values of the exclusivity harness: every pattern of the rules,
\* an upper-case spelling, and parts of a pattern that meet across fields.
ExclFields ==
  { NoWords, <<"SDCC">>, <<"san", "diego", "comic", "con">>, <<"nycc">>,
    <<"new", "york", "comic", "con">>, <<"eccc">>,
    <<"emerald", "city", "comic", "con">>, <<"anime", "expo">>, <<"ax">>,
    <<"ccxp">>, <<"Shared">>, <<"limited", "edition", "supreme">>,
    <<"limited", "edition">>, <<"limited">>, <<"edition">>, <<"hot", "topic">>,
    <<"gamestop">>, <<"target">>, <<"walmart">>, <<"amazon">>,
    <<"barnes", "&", "noble">>, <<"barnes", "and", "noble">>, <<"boxlunch">>,
    <<"funko", "shop">>, <<"entertainment", "earth">>,
    <<"anime", "of", "the", "year">>, <<"supreme">>, <<"batman">> }

ExclInit ==
  /\ catalog = << >>
  /\ FreshInstall
  /\ nItem = PE
  /\ nMaster = NoneOpt
  /\ nRow = NoRow
  /\ tItem \in { Text(a, b, NoWords, c) : a \in ExclFields, b \in ExclFields, c \in ExclFields }
  /\ tOut = NoOut

ExtractExclusivity ==
  /\ ~tOut.done
  /\ tOut' = [tOut EXCEPT !.done = TRUE, !.exclusivity = extract_exclusivity(tItem)]
  /\ UNCHANGED <<mainvars, nItem, nMaster, nRow, tItem>>

ExclNext == ExtractExclusivity

ExclSpec == ExclInit /\ [][ExclNext]_vars

\* The words of the sticker harness, in lexicon order, with the two words
\* of the suppression rules.
StickerWords ==
  << "chase", "glow", "gitd", "metallic", "flocked", "chrome", "blacklight",
     "diamond", "select", "gold", "golden", "translucent", "scented" >>

Range(f) == { f[i] : i \in DOMAIN f }
Reverse(ws) == [i \in 1..Len(ws) |-> ws[Len(ws) + 1 - i]]
Keep(ws, S) == LET keep(w) == w \in S IN SelectSeq(ws, keep)
Field(ws) == IF ws = << >> THEN NoWords ELSE ws

\* A name holding any set of the words, in lexicon order or in reverse.
StickerNames ==
  { Field(Keep(StickerWords, S)) : S \in SUBSET Range(StickerWords) }
    \cup { Field(Keep(Reverse(StickerWords), S)) : S \in SUBSET Range(StickerWords) }

StickerInit ==
  /\ catalog = << >>
  /\ FreshInstall
  /\ nItem = PE
  /\ nMaster = NoneOpt
  /\ nRow = NoRow
  /\ tItem \in { Text(a, NoWords, b, c) :
                   a \in StickerNames,
                   b \in {NoWords, <<"Glow">>, <<"GITD">>},
                   c \in {NoWords, <<"Golden">>, <<"diamond", "select">>} }
  /\ tOut = NoOut

ExtractStickers ==
  /\ ~tOut.done
  /\ tOut' = [tOut EXCEPT !.done = TRUE, !.stickers = extract_stickers(tItem)]
  /\ UNCHANGED <<mainvars, nItem, nMaster, nRow, tItem>>

StickerNext == ExtractStickers

StickerSpec == StickerInit /\ [][StickerNext]_vars

\* ------------------------------------------------------------ properties
SavedIndex == IF saved.exists THEN saved.last_index ELSE 0

InStore(h) == \E i \in 1..Len(store) : store[i].hdbid = h

\* C1: no two rows of the persisted store carry the same identifier; an item
\* whose identifier is already seen is never appended again.
C1_UniqueIdentifiers ==
  \A i, j \in 1..Len(store) : i # j => store[i].hdbid # store[j].hdbid

\* C2: every raw item with a non-empty identifier that the persisted offset
\* has been advanced past has a row in the persisted store.
C2_CursorLosesNoRow ==
  \A p \in 1..Min(SavedIndex, Len(catalog)) :
    HdbidOf(catalog[p]) # "" => InStore(HdbidOf(catalog[p]))

\* C3: the offset and the persisted offset never decrease, a run starts from
\* the persisted offset, and completing a page advances the offset by exactly
\* the (positive) number of raw items of that page.
C3_MonotonicCursor ==
  [][ /\ offset' >= offset
      /\ SavedIndex' >= SavedIndex
      /\ (pc = "idle" /\ pc' # "idle" => offset' = SavedIndex)
      /\ (pc = "update" /\ pc' = "save" =>
            Len(items) > 0 /\ offset' = offset + Len(items)) ]_vars

C3_Witness ==
  /\ runs = 2 /\ pc = "save"
  /\ startOffset > 0 /\ offset > startOffset
  /\ Len(new_rows) # Len(items)

\* C4: once consecutive_matches has reached the threshold, no row is produced,
\* no subvariant request is issued and the run is never again at the item loop
\* or at a page request.
C4_StopProperty ==
  [][ consecutive_matches' >= STOP_AFTER_MATCHES =>
        /\ pc' \notin {"fetch", "items"}
        /\ new_rows' = new_rows
        /\ subFetches' = subFetches
        /\ lastFetch' = lastFetch ]_vars

C4_Witness ==
  /\ consecutive_matches >= STOP_AFTER_MATCHES
  /\ pc = "append"
  /\ idx < Len(items)

\* C5: the store only grows at its end: every step leaves the old row
\* sequence as a prefix of the new one.
C5_AppendOnly == [][ IsPrefix(store, store') ]_vars

C5_Witness ==
  /\ runs = 2
  /\ Len(storeAtStart) > 0
  /\ Len(store) > Len(storeAtStart)

\* C6: a run that follows a run ended by an empty page or by the stop
\* threshold leaves the store as it found it.
C6_RerunAddsNothing ==
  (runs >= 2 /\ prevEnd \in {"empty", "threshold"}) => store = storeAtStart

C8_FinalFlush ==
  [][ (pc # "idle" /\ pc' = "idle") =>
        /\ saved'.exists
        /\ saved'.last_index = startOffset + pagesDone
        /\ saved'.total_scraped = progress.total_scraped
        /\ IsPrefix(store, store')
        /\ IsPrefix(storeAtStart, store') ]_vars

C8_Witness ==
  /\ pc = "idle"
  /\ endKind = "interrupt"
  /\ pagesDone > 0
  /\ Len(store) > Len(storeAtStart)
  /\ saved.last_index = startOffset + pagesDone

\* C9: a failed page request changes nothing but the record of the request,
\* and the next request is for the same offset.
C9_FailedFetchFrame ==
  /\ [][ (lastFetch' # lastFetch /\ lastFetch'.kind = "failed") =>
           /\ UNCHANGED <<offset, saved, progress, store, existing_hdbids,
                          consecutive_matches>>
           /\ pc' = "fetch"
           /\ lastFetch'.offset = offset ]_vars
  /\ [](pc = "fetch" /\ lastFetch.kind = "failed" => offset = lastFetch.offset)

C9_Witness ==
  /\ pc = "fetch"
  /\ lastFetch.kind = "failed"
  /\ offset > 0
  /\ existing_hdbids # {}

\* C10: a failed subvariant request is issued once, leaves the run in the item
\* loop, adds exactly the item's own row and moves on to the next item.
C10_SubvariantFailure ==
  /\ [][ (subFetches' # subFetches /\ lastSub' = "failed") =>
           /\ subFetches'[idx] = 1
           /\ endKind' = endKind
           /\ new_rows' = Append(new_rows, process_item(items[idx], NoneOpt))
           /\ existing_hdbids' = existing_hdbids \cup {HdbidOf(items[idx])}
           /\ idx' = idx + 1
           /\ pc' = IF idx < Len(items) THEN "items" ELSE "append" ]_vars
  /\ [](\A i \in 1..Len(subFetches) : subFetches[i] <= 1)

C10_Witness ==
  /\ pc = "items"
  /\ lastSub = "failed"
  /\ idx > 1
  /\ RemoteSubvariants(HdbidOf(items[idx - 1])) # << >>

ItemStep == pc = "items" /\ pc' # "finally" /\ HdbidOf(items[idx]) # ""

\* C12: the dedup test of a page item adds 1 to the counter and leaves seen
\* alone when the identifier is seen, and adds the identifier and zeroes the
\* counter when it is not; the counter is carried across the page boundary
\* and seen never shrinks during a run.
C12_DedupTransitions ==
  /\ [][ ItemStep =>
           LET h == HdbidOf(items[idx])
           IN /\ IF h \in existing_hdbids
                   THEN /\ afterDedup'.seen = existing_hdbids
                        /\ afterDedup'.consecutive_matches = consecutive_matches + 1
                        /\ consecutive_matches' = consecutive_matches + 1
                   ELSE /\ afterDedup'.seen = existing_hdbids \cup {h}
                        /\ afterDedup'.consecutive_matches = 0
                        /\ consecutive_matches' = 0
                        /\ h \in existing_hdbids'
              /\ afterDedup'.seen \subseteq existing_hdbids' ]_vars
  /\ [][ (pc \in {"append", "update", "save", "fetch"}) =>
           UNCHANGED consecutive_matches ]_vars
  /\ [][ (pc \notin {"idle", "finally"}) =>
           existing_hdbids \subseteq existing_hdbids' ]_vars

C12_Witness ==
  /\ pc = "items"
  /\ idx = 1
  /\ pagesDone > 0
  /\ consecutive_matches > 0

\* The rows the subvariants of the page item just handled have added to the
\* batch.  strict: every such row is a subvariant row owned by the page item.
C13_Shape(strict) ==
  (pc = "items" /\ subFetches' # subFetches) =>
    LET h == HdbidOf(items[idx])
        seen0 == afterDedup'.seen
        returned == IF lastSub' = "ok" THEN RemoteSubvariants(h) ELSE << >>
        added == SubSeq(new_rows', Len(new_rows) + 2, Len(new_rows'))
        rowsOf(sh) == { i \in 1..Len(added) : added[i].hdbid = sh }
    IN /\ \A i \in 1..Len(added) :
            /\ added[i].hdbid # ""
            /\ \E k \in 1..Len(returned) : HdbidOf(returned[k]) = added[i].hdbid
       /\ \A k \in 1..Len(returned) :
            LET sh == HdbidOf(returned[k])
                m == extract_master_variant_info(returned[k])
                owned == strict \/ (m.some /\ m.s # sh)
            IN /\ (sh # "" /\ sh \notin seen0) =>
                    /\ Cardinality(rowsOf(sh)) = 1
                    /\ sh \in existing_hdbids'
                    /\ \A i \in rowsOf(sh) :
                         IF owned
                           THEN /\ added[i].variant_type = "subvariant"
                                /\ added[i].master_variant_hdbid = h
                           ELSE /\ added[i].variant_type = "master"
                                /\ added[i].master_variant_hdbid = ""
               /\ (sh \in seen0) => rowsOf(sh) = {}

\* C13: every returned subvariant with a new, non-empty identifier adds
\* exactly one row, a subvariant row owned by the page item, and is marked
\* seen; a seen subvariant adds no row.
C13_SubvariantRows == [][ C13_Shape(TRUE) ]_vars

\* C13 as amended: the row is a subvariant row owned by the page item when the
\* subvariant record carries a master reference other than its own
\* identifier, and a master row with no owner otherwise.
C13_SubvariantRowsAmended == [][ C13_Shape(FALSE) ]_vars

C13_Witness ==
  /\ pc = "items"
  /\ \A k \in 1..Len(items) : HdbidOf(items[k]) # "2"
  /\ \E i, j \in 1..Len(new_rows) :
       /\ new_rows[i].hdbid = "3"
       /\ new_rows[i].variant_type = "subvariant"
       /\ new_rows[i].master_variant_hdbid = "1"
       /\ new_rows[j].hdbid = "2"
       /\ new_rows[j].variant_type = "master"

\* C14: for every record and every caller-supplied master identifier,
\* absent included, the row is a master exactly when the record carries no
\* master reference or its master reference is its own identifier; the owner
\* of a subvariant row is the caller-supplied identifier.
C14_MasternessRule ==
  nRow # NoRow =>
    LET m == extract_master_variant_info(nItem)
        h == HdbidOf(nItem)
    IN /\ (nRow.is_master_variant = "1" <=> (~m.some \/ m.s = h))
       /\ (nRow.is_master_variant = "0" =>
             /\ nMaster.some
             /\ nRow.master_variant_hdbid = nMaster.s)

\* C15: a page's rows are in the store before the cursor moves, the cursor is
\* persisted before the next page request, so at every page request the
\* persisted offset is the requested one; total_scraped grows by the raw item
\* count of each completed page and by nothing else.
C15_PersistenceOrder ==
  /\ [](pc \in {"update", "save"} =>
          /\ Len(store) >= Len(new_rows)
          /\ SubSeq(store, Len(store) - Len(new_rows) + 1, Len(store)) = new_rows)
  /\ [](pc = "fetch" =>
          /\ SavedIndex = offset
          /\ progress.last_index = offset
          /\ offset = startOffset + pagesDone)
  /\ [][ (pc # "idle") =>
           /\ (progress' # progress => pc = "update")
           /\ (saved' # saved => pc \in {"save", "finally"})
           /\ (store' # store => pc = "append")
           /\ progress'.total_scraped =
                IF pc = "update" /\ pc' = "save"
                  THEN progress.total_scraped + Len(items)
                  ELSE progress.total_scraped ]_vars

C15_Witness ==
  /\ pc = "fetch"
  /\ runs = 2
  /\ pagesDone > 0
  /\ Len(store) > Len(storeAtStart)

\* C16: an append error ends the loop at once: no further page request, the
\* offset and total_scraped stay where the previous page left them, and the
\* final flush persists those values.
C16_PersistenceErrorFatal ==
  /\ [][ (endKind' = "error" /\ endKind # "error") =>
           /\ pc' = "finally"
           /\ UNCHANGED <<offset, progress, saved, lastFetch, pagesDone>> ]_vars
  /\ [][ (endKind = "error") =>
           /\ (pc = "finally" => pc' = "idle" /\ saved' = save_progress(progress))
           /\ (endKind' = "error" => UNCHANGED <<offset, progress, lastFetch, pagesDone>>) ]_vars
  /\ [](endKind = "error" => pc \in {"finally", "idle"})
  /\ [](endKind = "error" /\ pc = "idle" =>
          /\ saved.exists
          /\ saved.last_index = startOffset + pagesDone
          /\ saved.last_index = offset
          /\ saved.total_scraped = progress.total_scraped)

C16_Witness ==
  /\ pc = "idle"
  /\ endKind = "error"
  /\ pagesDone > 0
  /\ Len(store) > Len(storeAtStart)
  /\ offset < Len(catalog)

\* C17: the exclusivity label is that of the first rule, in the order SDCC,
\* NYCC, ECCC, Anime Expo, CCXP (Shared when the text contains "shared",
\* else Exclusive), "limited edition supreme", "limited edition", then the
\* retailers as listed, that has a pattern in the text; it is absent exactly
\* when no rule has one.
C17_FirstMatchWins ==
  tOut.done =>
    LET text == ExclusivityText(tItem)
        rules ==
          << [patterns |-> {<<"sdcc">>, <<"san", "diego", "comic", "con">>},
              label |-> "SDCC Exclusive", shared |-> "SDCC Shared"],
             [patterns |-> {<<"nycc">>, <<"new", "york", "comic", "con">>},
              label |-> "NYCC Exclusive", shared |-> "NYCC Shared"],
             [patterns |-> {<<"eccc">>, <<"emerald", "city", "comic", "con">>},
              label |-> "ECCC Exclusive", shared |-> "ECCC Shared"],
             [patterns |-> {<<"anime", "expo">>, <<"", "ax", "">>},
              label |-> "Anime Expo Exclusive", shared |-> "Anime Expo Shared"],
             [patterns |-> {<<"ccxp">>},
              label |-> "CCXP Exclusive", shared |-> "CCXP Shared"],
             [patterns |-> {<<"limited", "edition", "supreme">>},
              label |-> "Limited Edition Supreme", shared |-> "Limited Edition Supreme"],
             [patterns |-> {<<"limited", "edition">>},
              label |-> "Limited Edition", shared |-> "Limited Edition"],
             [patterns |-> {<<"hot", "topic">>}, label |-> "Hot Topic", shared |-> "Hot Topic"],
             [patterns |-> {<<"gamestop">>}, label |-> "GameStop", shared |-> "GameStop"],
             [patterns |-> {<<"target">>}, label |-> "Target", shared |-> "Target"],
             [patterns |-> {<<"walmart">>}, label |-> "Walmart", shared |-> "Walmart"],
             [patterns |-> {<<"amazon">>}, label |-> "Amazon", shared |-> "Amazon"],
             [patterns |-> {<<"barnes", "&", "noble">>, <<"barnes", "and", "noble">>},
              label |-> "Barnes & Noble", shared |-> "Barnes & Noble"],
             [patterns |-> {<<"boxlunch">>}, label |-> "BoxLunch", shared |-> "BoxLunch"],
             [patterns |-> {<<"funko", "shop">>}, label |-> "Funko Shop", shared |-> "Funko Shop"],
             [patterns |-> {<<"entertainment", "earth">>},
              label |-> "Entertainment Earth", shared |-> "Entertainment Earth"],
             [patterns |-> {<<"anime", "of", "the", "year">>},
              label |-> "Anime of the Year", shared |-> "Anime of the Year"],
             [patterns |-> {<<"supreme">>}, label |-> "Supreme", shared |-> "Supreme"] >>
        matching == { i \in DOMAIN rules : \E k \in rules[i].patterns : In(k, text) }
    IN IF matching = {}
         THEN ~tOut.exclusivity.some
         ELSE LET first == CHOOSE i \in matching : \A j \in matching : i <= j
              IN /\ tOut.exclusivity.some
                 /\ tOut.exclusivity.s =
                      IF In(<<"shared">>, text) THEN rules[first].shared
                                                ELSE rules[first].label

C17_Witness ==
  /\ tOut.done
  /\ tItem.name = <<"target">>
  /\ tItem.series = <<"ax">>
  /\ tItem.description = <<"Shared">>
  /\ tOut.exclusivity = Some("Anime Expo Shared")

\* C18: the stickers hold each label at most once, in lexicon order whatever
\* the order of the keywords in the text; a label is there exactly when one of
\* its keywords is in the text and is not suppressed: no Diamond with
\* "diamond select" in the text, no Gold with "golden".
C18_Stickers ==
  tOut.done =>
    LET text == StickerText(tItem)
        r == tOut.stickers
        lexicon ==
          << [label |-> "Chase", keywords |-> {"chase"}, unless |-> << >>],
             [label |-> "Glow in the Dark", keywords |-> {"glow", "gitd"}, unless |-> << >>],
             [label |-> "Metallic", keywords |-> {"metallic"}, unless |-> << >>],
             [label |-> "Flocked", keywords |-> {"flocked"}, unless |-> << >>],
             [label |-> "Chrome", keywords |-> {"chrome"}, unless |-> << >>],
             [label |-> "Blacklight", keywords |-> {"blacklight"}, unless |-> << >>],
             [label |-> "Diamond", keywords |-> {"diamond"}, unless |-> <<"diamond", "select">>],
             [label |-> "Gold", keywords |-> {"gold"}, unless |-> <<"golden">>],
             [label |-> "Translucent", keywords |-> {"translucent"}, unless |-> << >>],
             [label |-> "Scented", keywords |-> {"scented"}, unless |-> << >>] >>
        rank(l) == CHOOSE i \in DOMAIN lexicon : lexicon[i].label = l
        due(e) == /\ \E k \in e.keywords : In(<<k>>, text)
                  /\ (e.unless = << >> \/ ~In(e.unless, text))
    IN /\ \A i \in 1..Len(r) : \E j \in DOMAIN lexicon : lexicon[j].label = r[i]
       /\ \A i, j \in 1..Len(r) : i < j => rank(r[i]) < rank(r[j])
       /\ \A j \in DOMAIN lexicon : Holds(r, lexicon[j].label) <=> due(lexicon[j])

C18_Witness ==
  /\ tOut.done
  /\ tItem.name = <<"scented", "golden", "select", "diamond", "gitd", "glow", "chase">>
  /\ tItem.description = <<"diamond", "select">>
  /\ tOut.stickers = <<"Chase", "Glow in the Dark", "Scented">>

\* C19: handling the subvariants of a page item leaves the counter as the
\* dedup test of that item set it, whether subvariants were appended (seen
\* grew) or skipped.
C19_SubvariantsKeepCounter ==
  [][ (pc = "items" /\ subFetches' # subFetches) =>
        /\ consecutive_matches' = afterDedup'.consecutive_matches
        /\ (HdbidOf(items[idx]) \in existing_hdbids =>
              consecutive_matches' = consecutive_matches + 1)
        /\ (HdbidOf(items[idx]) \notin existing_hdbids =>
              consecutive_matches' = 0) ]_vars

C19_Witness ==
  /\ pc = "items"
  /\ idx > 1
  /\ consecutive_matches > 0
  /\ new_rows # << >>
  /\ new_rows[Len(new_rows)].hdbid # HdbidOf(items[idx - 1])
  /\ afterDedup.seen # existing_hdbids

\* C20: a page item without identifier is passed over: no row, no subvariant
\* request, seen and counter untouched; it still counts in the advance of
\* offset and total_scraped.
C20_EmptyIdentifierSkipped ==
  /\ [][ (pc = "items" /\ pc' # "finally" /\ HdbidOf(items[idx]) = "") =>
           /\ UNCHANGED <<new_rows, subFetches, lastSub, existing_hdbids,
                          consecutive_matches, store>>
           /\ idx' = idx + 1 ]_vars
  /\ [][ (pc = "update" /\ pc' = "save") =>
           /\ offset' = offset + Len(items)
           /\ progress'.last_index = progress.last_index + Len(items)
           /\ progress'.total_scraped = progress.total_scraped + Len(items) ]_vars

C20_Witness ==
  /\ pc = "save"
  /\ \E i \in 1..Len(items) : HdbidOf(items[i]) = ""
  /\ new_rows # << >>
  /\ offset = startOffset + pagesDone
  /\ Len(new_rows) < Len(items)

====
